---- MODULE Spec2Model ----
(***************************************************************************)
(* Model of the Cloud-Hypervisor process controller (src/ch/ch_process.c): *)
(* virCHProcessStart, virCHProcessStop and chProcessAddNetworkDevices.     *)
(* Start and Stop are single-threaded state machines; every call into a    *)
(* collaborator (monitor, cgroup, network setup, socket) is a step whose   *)
(* outcome is chosen nondeterministically.                                 *)
(***************************************************************************)
EXTENDS Integers, Sequences, FiniteSets, TLC

(***************************************************************************)
(* Bounds and program constants                                            *)
(***************************************************************************)
\* largest number of guest interfaces (vmdef->nnets) explored
MaxNets == 2

\* errno value tested by the cgroup-removal retry (ret == -EBUSY)
EBUSY == 16

\* retries++ < 5
MaxRetries == 5

\* pids a freshly connected monitor can report (priv->monitor->pid)
VmmPids == {101, 102}

\* vm->def->virtType values explored
VirtTypes == {"kvm", "hyperv", "qemu"}

\* virDomainShutoffReason values a caller of Stop supplies
ShutoffReasons == {"Shutdown", "Destroyed"}

\* virDomainRunningReason values a caller of Start supplies
RunningReasons == {"Booted"}

\* most interruptions by a signal (EINTR) in a row explored for one system
\* call
MaxEintr == 1

\* queue-pair counts (driver.virtio.queues) a definition can carry
QueueCounts == {0, 2}

(***************************************************************************)
(* The wire: response buffers, one character per element                   *)
(***************************************************************************)
R200 == <<"H","T","T","P","/","1",".","1"," ","2","0","0"," ","O","K","\r","\n">>
R204 == <<"H","T","T","P","/","1",".","1"," ","2","0","4"," ","N","o","\r","\n">>
R200v0 == <<"H","T","T","P","/","1",".","0"," ","2","0","0","\r","\n">>
R500 == <<"H","T","T","P","/","1",".","1"," ","5","0","0"," ","E","r","r","\r","\n">>
R404 == <<"H","T","T","P","/","1",".","1"," ","4","0","4","\r","\n">>
R2000 == <<"H","T","T","P","/","1",".","1"," ","2","0","0","0","\r","\n">>
RNoCode == <<"H","T","T","P","/","1",".","1"," ","O","K","\r","\n">>
RNoMinor == <<"H","T","T","P","/","1","."," ","2","0","0","\r","\n">>
RGlued == <<"H","T","T","P","/","1",".","1","2","0","0","\r","\n">>
RHttp2 == <<"H","T","T","P","/","2"," ","2","0","0","\r","\n">>
RWrapped == <<"H","T","T","P","/","1",".","1","\r","\n","2","0","4","\r","\n">>
REmpty == << >>

\* buffers chSocketRecv can hand back (recv of 0 bytes leaves the zeroed buffer)
Responses == {R200, R204, R200v0, R500, R404, R2000, RNoCode, RNoMinor, RGlued, RHttp2,
              RWrapped, REmpty}

Digits == {"0","1","2","3","4","5","6","7","8","9"}

DigitVal(c) ==
    CASE c = "0" -> 0 [] c = "1" -> 1 [] c = "2" -> 2 [] c = "3" -> 3
      [] c = "4" -> 4 [] c = "5" -> 5 [] c = "6" -> 6 [] c = "7" -> 7
      [] c = "8" -> 8 [] c = "9" -> 9

IsSpace(c) == c \in {" ", "\t", "\r", "\n"}

\* a whitespace directive, and the leading whitespace every %d skips
RECURSIVE SkipSpace(_, _)
SkipSpace(s, p) ==
    IF p <= Len(s) /\ IsSpace(s[p]) THEN SkipSpace(s, p + 1) ELSE p

RECURSIVE ScanDigits(_, _, _)
ScanDigits(s, p, acc) ==
    IF p <= Len(s) /\ s[p] \in Digits
    THEN ScanDigits(s, p + 1, acc * 10 + DigitVal(s[p]))
    ELSE [val |-> acc, pos |-> p]

\* one %d conversion at position p0: skip whitespace, optional sign, digits
ScanInt(s, p0) ==
    LET p  == SkipSpace(s, p0)
        sg == p <= Len(s) /\ s[p] \in {"+", "-"}
        q  == IF sg THEN p + 1 ELSE p
        d  == ScanDigits(s, q, 0)
    IN  IF d.pos = q
        THEN [ok |-> FALSE, val |-> 0, pos |-> q]
        ELSE [ok |-> TRUE,
              val |-> IF sg /\ s[p] = "-" THEN 0 - d.val ELSE d.val,
              pos |-> d.pos]

StatusPrefix == <<"H","T","T","P","/","1",".">>

\* first position at which s stops matching the literal lit (Len(lit)+1 if none)
RECURSIVE MatchLit(_, _, _)
MatchLit(s, lit, k) ==
    IF k > Len(lit) THEN k
    ELSE IF k <= Len(s) /\ s[k] = lit[k] THEN MatchLit(s, lit, k + 1)
    ELSE k

\* rc = sscanf(response, "HTTP/1.%*d %d", &http_res)
sscanfStatus(s) ==
    LET m   == MatchLit(s, StatusPrefix, 1)
        min == ScanInt(s, Len(StatusPrefix) + 1)
        cod == ScanInt(s, SkipSpace(s, min.pos))
        eof(p) == IF p > Len(s) THEN 0 - 1 ELSE 0
    IN  IF m <= Len(StatusPrefix) THEN [rc |-> eof(m), http_res |-> 0]
        ELSE IF ~min.ok THEN [rc |-> eof(min.pos), http_res |-> 0]
        ELSE IF ~cod.ok THEN [rc |-> eof(cod.pos), http_res |-> 0]
        ELSE [rc |-> 1, http_res |-> cod.val]

\* the status test forgotten: any parsed code accepted
ResponseRejectedMutant(s) == sscanfStatus(s).rc # 1

\* the two checks after sscanf: rc != 1, then http_res != 204 && http_res != 200
ResponseRejected(s) ==
    LET r == sscanfStatus(s)
    IN  r.rc # 1 \/ (r.http_res # 204 /\ r.http_res # 200)

(***************************************************************************)
(* State                                                                   *)
(***************************************************************************)
VARIABLES
    vm,      \* the domain object: priv->monitor, vm->pid, vm->def->id,
             \* priv->machineName, priv->cgroup, state/reason, def->virtType,
             \* def->nets[i]->driver.virtio.queues
    driver,  \* driver->caps (host virtualization support), driver->chCaps
    host,    \* host-side resources: the VM's cgroup directory, per-interface
             \* host state, interfaces up
    pc,      \* position of the single thread of control
    call,    \* locals and arguments of the call in progress
    obs      \* what the call in progress has done so far (history)

vars == <<vm, driver, host, pc, call, obs>>

NoPid == 0

NoId == 0 - 1

\* virDomainObjIsActive_AlwaysInactive: the activity test dropped
IsActiveMutant(defid) == FALSE

\* virDomainObjIsActive(vm): vm->def->id != -1
virDomainObjIsActive(defid) == defid # NoId

\* validation that accepts every virtType
StartValidateMutant(virtType, caps) == 0

\* virCHProcessStartValidate: 0 when the domain's backend is one of the two
\* supported ones and the host offers it, -1 otherwise
virCHProcessStartValidate(virtType, caps) ==
    IF virtType = "kvm"
    THEN (IF "kvm" \in caps THEN 0 ELSE 0 - 1)
    ELSE IF virtType = "hyperv"
    THEN (IF "hyperv" \in caps THEN 0 ELSE 0 - 1)
    ELSE 0 - 1

\* boot issued before the interfaces are brought up
StartNextMutant(step) ==
    CASE step = "Validated"             -> "MonitorConnected"
      [] step = "MonitorConnected"      -> "VMCreated"
      [] step = "VMCreated"             -> "NetworksAttached"
      [] step = "NetworksAttached"      -> "CgroupCreated"
      [] step = "CgroupCreated"         -> "AffinityInitialized"
      [] step = "AffinityInitialized"   -> "Booted"
      [] step = "Booted"                -> "NetDevicesUp"
      [] step = "NetDevicesUp"          -> "EmulatorThreadsPlaced"
      [] step = "EmulatorThreadsPlaced" -> "IOThreadsPlaced"
      [] step = "IOThreadsPlaced"       -> "GlobalCpuCgroupSet"
      [] step = "GlobalCpuCgroupSet"    -> "VCPUsPlaced"
      [] step = "VCPUsPlaced"           -> "Running"

\* the cgroup set up after the emulator and I/O threads were placed
StartNextMutantCgroup(step) ==
    CASE step = "Validated"             -> "MonitorConnected"
      [] step = "MonitorConnected"      -> "VMCreated"
      [] step = "VMCreated"             -> "NetworksAttached"
      [] step = "NetworksAttached"      -> "AffinityInitialized"
      [] step = "AffinityInitialized"   -> "NetDevicesUp"
      [] step = "NetDevicesUp"          -> "Booted"
      [] step = "Booted"                -> "EmulatorThreadsPlaced"
      [] step = "EmulatorThreadsPlaced" -> "IOThreadsPlaced"
      [] step = "IOThreadsPlaced"       -> "CgroupCreated"
      [] step = "CgroupCreated"         -> "GlobalCpuCgroupSet"
      [] step = "GlobalCpuCgroupSet"    -> "VCPUsPlaced"
      [] step = "VCPUsPlaced"           -> "Running"

\* the statement that follows a step of virCHProcessStart that succeeded
StartNext(step) ==
    CASE step = "Validated"             -> "MonitorConnected"
      [] step = "MonitorConnected"      -> "VMCreated"
      [] step = "VMCreated"             -> "NetworksAttached"
      [] step = "NetworksAttached"      -> "CgroupCreated"
      [] step = "CgroupCreated"         -> "AffinityInitialized"
      [] step = "AffinityInitialized"   -> "NetDevicesUp"
      [] step = "NetDevicesUp"          -> "Booted"
      [] step = "Booted"                -> "EmulatorThreadsPlaced"
      [] step = "EmulatorThreadsPlaced" -> "IOThreadsPlaced"
      [] step = "IOThreadsPlaced"       -> "GlobalCpuCgroupSet"
      [] step = "GlobalCpuCgroupSet"    -> "VCPUsPlaced"
      [] step = "VCPUsPlaced"           -> "Running"

\* interface bring-up routed through the cleanup label like its neighbours
OnFailMutantCleanup(step) ==
    IF step = "Validated" THEN "return" ELSE "cleanup"

\* every failure returning at once
OnFailMutantReturn(step) == "return"

\* network attachment returning at once like the interface bring-up
OnFailMutantAttach(step) ==
    IF step \in {"Validated", "NetworksAttached", "NetDevicesUp"}
    THEN "return" ELSE "cleanup"

\* what a failing step of virCHProcessStart does: "return -1" or "goto cleanup"
OnFail(step) ==
    IF step \in {"Validated", "NetDevicesUp"} THEN "return" ELSE "cleanup"

\* one retry fewer
CgroupRetryMutant(r, retries) == r = 0 - EBUSY /\ retries < MaxRetries - 1

\* ret == -EBUSY && (retries++ < 5)
CgroupRetry(r, retries) == r = 0 - EBUSY /\ retries < MaxRetries

\* the process-identity field left as it was
StopFinalMutantId(v, reason) ==
    [v EXCEPT !.pid = NoPid, !.machineName = NoPid,
              !.state = "Shutoff", !.reason = reason]

\* the state transition skipped when the domain is Shutoff already
StopFinalMutantReason(v, reason) ==
    [v EXCEPT !.pid = NoPid, !.id = NoId, !.machineName = NoPid,
              !.state = "Shutoff",
              !.reason = IF v.state = "Shutoff" THEN v.reason ELSE reason]

\* the process id and the domain id left as they were
StopFinalMutantActive(v, reason) ==
    [v EXCEPT !.machineName = NoPid, !.state = "Shutoff", !.reason = reason]

\* the last statements of virCHProcessStop
StopFinal(v, reason) ==
    [v EXCEPT !.pid = NoPid, !.id = NoId, !.machineName = NoPid,
              !.state = "Shutoff", !.reason = reason]

\* the handle dropped without virCHMonitorClose
ConnsAfterStopMutant(v, n) == n

\* if (priv->monitor) g_clear_pointer(&priv->monitor, virCHMonitorClose): the
\* number of open monitor connections of the VM after it
ConnsAfterStop(v, n) == IF v.monitor THEN n - 1 ELSE n

\* the host after virDomainCgroupRemoveCgroup returned 0: the top-level
\* group is gone and its nested groups with it
CgroupRemoved(h) == [h EXCEPT !.cgroupExists = FALSE, !.nested = {}]

\* the placement settings as placement sees them: a NULL priv->cgroup has no
\* controller
PrivCfg(v) == [v.cfg EXCEPT !.ctl = IF v.cgroup THEN @ ELSE {}]

\* vm->pid = priv->monitor->pid; vm->def->id = vm->pid; priv->machineName = ...
AssignPid(v) ==
    [v EXCEPT !.pid = v.monPid, !.id = v.monPid, !.machineName = v.monPid]

(***************************************************************************)
(* virCHProcessSetupPid                                                    *)
(***************************************************************************)
\* a virBitmap pointer: the empty set for NULL, {cpus} for a bitmap
NoMask == {}

Mask(S) == {S}

\* what virHostCPUGetOnlineBitmap returns
HostCpus == {0, 1, 2}

\* a collaborator call made by virCHProcessSetupPid, with the bitmap or the
\* period and quota it is handed
Call(op, mask, period, quota) ==
    [op |-> op, mask |-> mask, period |-> period, quota |-> quota]

\* virCgroupHasController(priv->cgroup, c)
HasController(ctl, c) == c \in ctl

\* a limit counted as set only when period and quota are both positive
BandwidthSetMutant(period, quota) == period > 0 /\ quota > 0

\* (period || quota)
BandwidthSet(period, quota) == period # 0 \/ quota # 0

\* the VM-wide mask preferred to the per-entity one
UseCpumaskMutant(in) ==
    IF in.defCpumask # NoMask THEN in.defCpumask
    ELSE IF in.cpumask # NoMask THEN in.cpumask
    ELSE IF in.auto THEN in.autoCpuset
    ELSE NoMask

\* use_cpumask after "Infer which cpumask shall be used"
UseCpumask(in) ==
    IF in.cpumask # NoMask THEN in.cpumask
    ELSE IF in.auto THEN in.autoCpuset
    ELSE IF in.defCpumask # NoMask THEN in.defCpumask
    ELSE NoMask

\* the last branch of the inference, which asks for the host's CPUs
AsksHostMap(in) == in.cpumask = NoMask /\ ~in.auto /\ in.defCpumask = NoMask

\* hostcpumap after virCHProcessGetAllCpuAffinity succeeded: NULL when
\* virHostCPUHasBitmap() is false
HostCpuMap(in) == IF in.hostBitmap THEN Mask(HostCpus) ELSE NoMask

\* the host's CPUs never taken as the affinity
AffinityCpumaskMutant(in) == UseCpumask(in)

\* affinity_cpumask at "Setup legacy affinity"
AffinityCpumask(in) ==
    IF AsksHostMap(in) /\ HostCpuMap(in) # NoMask
    THEN HostCpuMap(in)
    ELSE UseCpumask(in)

\* mem_mask: formatted only in strict and restrictive mode
MemMask(in) ==
    IF in.numaMode \in {"strict", "restrictive"} THEN in.nodeset ELSE NoMask

\* the settings written before the thread is moved into the group
CgroupCallsMutant(in) ==
    (IF in.numaMode \in {"strict", "restrictive"}
     THEN <<Call("formatnodeset", NoMask, 0, 0)>> ELSE << >>)
    \o <<Call("newthread", NoMask, 0, 0)>>
    \o (IF HasController(in.ctl, "cpuset")
        THEN (IF UseCpumask(in) # NoMask
              THEN <<Call("setcpus", UseCpumask(in), 0, 0)>> ELSE << >>)
             \o (IF MemMask(in) # NoMask
                 THEN <<Call("setmems", MemMask(in), 0, 0)>> ELSE << >>)
        ELSE << >>)
    \o <<Call("setbw", NoMask, in.period, in.quota)>>
    \o <<Call("addthread", NoMask, 0, 0)>>

\* the calls of the block guarded by the CPU or CPUSET controller, in the
\* order of the code, as made when each of them succeeds
CgroupCalls(in) ==
    (IF in.numaMode \in {"strict", "restrictive"}
     THEN <<Call("formatnodeset", NoMask, 0, 0)>> ELSE << >>)
    \o <<Call("newthread", NoMask, 0, 0), Call("addthread", NoMask, 0, 0)>>
    \o (IF HasController(in.ctl, "cpuset")
        THEN (IF UseCpumask(in) # NoMask
              THEN <<Call("setcpus", UseCpumask(in), 0, 0)>> ELSE << >>)
             \o (IF MemMask(in) # NoMask
                 THEN <<Call("setmems", MemMask(in), 0, 0)>> ELSE << >>)
        ELSE << >>)
    \o <<Call("setbw", NoMask, in.period, in.quota)>>

\* every collaborator call of virCHProcessSetupPid after the bandwidth
\* precondition, in the order of the code, as made when each succeeds
PidCalls(in) ==
    (IF AsksHostMap(in) /\ in.hostBitmap
     THEN <<Call("onlinebitmap", NoMask, 0, 0)>> ELSE << >>)
    \o (IF HasController(in.ctl, "cpu") \/ HasController(in.ctl, "cpuset")
        THEN CgroupCalls(in) ELSE << >>)
    \o (IF AffinityCpumask(in) # NoMask
        THEN <<Call("setaffinity", AffinityCpumask(in), 0, 0)>> ELSE << >>)
    \o (IF in.sched # "none" /\ in.nameval # "emulator"
        THEN <<Call("setscheduler", NoMask, 0, 0)>> ELSE << >>)

\* the nested group left behind by a failed call
NeedsRemoveMutant(ret, cgroup) == FALSE

\* cleanup: if (ret < 0 && cgroup) virCgroupRemove(cgroup)
NeedsRemove(ret, cgroup) == ret < 0 /\ cgroup

\* virCHProcessSetupPid on the inputs in when the failAt-th collaborator
\* call fails (none when failAt is 0): the return value, the error, the
\* calls made in order (the failing one last, then the removal of cleanup),
\* and the position of the failing call
virCHProcessSetupPid(in, failAt) ==
    IF BandwidthSet(in.period, in.quota) /\ ~HasController(in.ctl, "cpu")
    THEN [ret |-> 0 - 1, err |-> "ConfigUnsupported", calls |-> << >>,
          failed |-> 0]
    ELSE LET calls  == PidCalls(in)
             failed == failAt \in 1..Len(calls)
             made   == IF failed THEN SubSeq(calls, 1, failAt) ELSE calls
             ret    == IF failed THEN 0 - 1 ELSE 0
             cgroup == \E k \in 1..Len(made) :
                          /\ made[k].op = "newthread"
                          /\ (failed => k < failAt)
         IN  [ret |-> ret,
              err |-> IF failed THEN "InternalError" ELSE "none",
              calls |-> made \o (IF NeedsRemove(ret, cgroup)
                                 THEN <<Call("remove", NoMask, 0, 0)>>
                                 ELSE << >>),
              failed |-> IF failed THEN failAt ELSE 0]

\* the arguments and the context virCHProcessSetupPid reads, for a thread of
\* class nameval of the VM whose placement settings are cfg
PidIn(cfg, nameval, id, cpumask, period, quota, sched) ==
    [nameval |-> nameval, id |-> id, cpumask |-> cpumask, period |-> period,
     quota |-> quota, sched |-> sched, ctl |-> cfg.ctl, auto |-> cfg.auto,
     autoCpuset |-> cfg.autoCpuset, defCpumask |-> cfg.cpumask,
     hostBitmap |-> cfg.hostBitmap, numaMode |-> cfg.numaMode,
     nodeset |-> cfg.nodeset]

\* virCHProcessSetupEmulatorThreads: one call per emulator thread of the
\* monitor, all with id 0
EmulatorIns(cfg) ==
    [j \in 1..cfg.emuThreads |->
        PidIn(cfg, "emulator", 0, cfg.emulatorpin, cfg.emuPeriod, cfg.emuQuota,
              cfg.emulatorsched)]

\* virCHProcessSetupIOThreads: priv->autoCpuset as the mask, no scheduler
IOThreadIns(cfg) ==
    [j \in 1..Len(cfg.iothreads) |->
        PidIn(cfg, "iothread", cfg.iothreads[j], cfg.autoCpuset, cfg.ioPeriod,
              cfg.ioQuota, "none")]

\* the vCPUs the loops of virCHProcessSetupVcpus do not skip, in order
OnlineVcpus(cfg) ==
    SelectSeq([i \in 1..Len(cfg.vcpus) |-> i], LAMBDA i : cfg.vcpus[i].online)

\* virCHProcessSetupVcpu for each online vCPU: &vcpu->sched is never NULL
VcpuIns(cfg) ==
    [j \in 1..Len(OnlineVcpus(cfg)) |->
        PidIn(cfg, "vcpu", OnlineVcpus(cfg)[j] - 1,
              cfg.vcpus[OnlineVcpus(cfg)[j]].cpumask, cfg.period, cfg.quota,
              "vcpu")]

\* virBitmapEqual: two NULLs are equal, a NULL and a bitmap are not
virBitmapEqual(b1, b2) == b1 = b2

\* offline vCPUs looked at as well
VcpuAffinityRejectedMutant(cfg) ==
    \E i \in 1..Len(cfg.vcpus) :
       /\ cfg.vcpus[i].cpumask # NoMask
       /\ ~virBitmapEqual(cfg.cpumask, cfg.vcpus[i].cpumask)

\* the loop of virCHProcessSetupVcpus taken without vCPU thread ids
VcpuAffinityRejected(cfg) ==
    \E i \in 1..Len(cfg.vcpus) :
       /\ cfg.vcpus[i].online
       /\ cfg.vcpus[i].cpumask # NoMask
       /\ ~virBitmapEqual(cfg.cpumask, cfg.vcpus[i].cpumask)

\* a loop calling virCHProcessSetupPid on each of ins in order and returning
\* at the first failure, when the k-th call has its f-th collaborator call
\* fail (k = 0: none fails): the calls made, each with its result
RECURSIVE SetupLoop(_, _, _)
SetupLoop(ins, k, f) ==
    IF ins = << >> THEN << >>
    ELSE LET r == virCHProcessSetupPid(Head(ins), IF k = 1 THEN f ELSE 0)
         IN  IF r.ret < 0
             THEN <<[in |-> Head(ins), r |-> r]>>
             ELSE <<[in |-> Head(ins), r |-> r]>> \o SetupLoop(Tail(ins), k - 1, f)

\* virCgroupNewThread succeeded in the call p
CreatedNested(p) ==
    \E k \in 1..Len(p.r.calls) :
       p.r.calls[k].op = "newthread" /\ k # p.r.failed

\* virCgroupRemove was called in the call p
RemovedNested(p) ==
    \E k \in 1..Len(p.r.calls) : p.r.calls[k].op = "remove"

\* the nested groups of the host, keyed by thread class and id, after the
\* calls placed: virCgroupNewThread(..., create = true) makes the group or
\* takes the one of that key, virCgroupRemove deletes it
RECURSIVE NestedAfter(_, _)
NestedAfter(nested, placed) ==
    IF placed = << >> THEN nested
    ELSE LET p   == Head(placed)
             key == <<p.in.nameval, p.in.id>>
         IN  NestedAfter(IF ~CreatedNested(p) THEN nested
                         ELSE IF RemovedNested(p) THEN nested \ {key}
                         ELSE nested \cup {key},
                         Tail(placed))

(***************************************************************************)
(* virCHProcessInitCpuAffinity                                             *)
(***************************************************************************)
\* the CPUs of a NUMA node of the host
NodeCpus(n) == IF n = 0 THEN {0, 1} ELSE {2}

\* virNumaNodesetToCPUset: NULL for a NULL nodeset, else the CPUs of its
\* nodes
NodesetToCPUset(nodeset) ==
    IF nodeset = NoMask THEN NoMask
    ELSE Mask(UNION {NodeCpus(n) : n \in UNION nodeset})

\* the first branch: at most one guest NUMA node and strict memory mode
StrictSingleNode(cfg) == cfg.numaNodes <= 1 /\ cfg.numaMode = "strict"

\* the mask of the resolution policy of placeThread taken instead
InitAffinityMaskMutant(cfg) ==
    IF cfg.emulatorpin # NoMask THEN cfg.emulatorpin
    ELSE IF cfg.auto THEN cfg.autoCpuset
    ELSE IF cfg.cpumask # NoMask THEN cfg.cpumask
    ELSE HostCpuMap(cfg)

\* cpumapToSet when every call of the chosen branch succeeds
InitAffinityMask(cfg) ==
    IF StrictSingleNode(cfg) THEN NodesetToCPUset(cfg.nodeset)
    ELSE IF cfg.emulatorpin # NoMask THEN cfg.emulatorpin
    ELSE HostCpuMap(cfg)

\* the collaborator calls of virCHProcessInitCpuAffinity that can fail, in
\* the order of the code, as made when each succeeds
InitAffinityCalls(cfg) ==
    (IF StrictSingleNode(cfg) THEN <<"getnodeset", "nodesettocpuset">>
     ELSE IF cfg.emulatorpin # NoMask THEN <<"bitmapcopy">>
     ELSE IF cfg.hostBitmap THEN <<"onlinebitmap">>
     ELSE << >>)
    \o (IF InitAffinityMask(cfg) # NoMask THEN <<"setaffinity">> ELSE << >>)

\* virCHProcessInitCpuAffinity(vm) when the failAt-th collaborator call
\* fails (none when failAt is 0): the return value, the error, and the
\* affinity set, with the id it was set on. A build with neither
\* sched_getaffinity nor the BSD affinity call has the variant that only
\* returns 0.
virCHProcessInitCpuAffinity(v, failAt) ==
    IF ~v.cfg.withAffinity
    THEN [ret |-> 0, err |-> "none", set |-> << >>]
    ELSE IF v.pid = NoPid
    THEN [ret |-> 0 - 1, err |-> "InternalError", set |-> << >>]
    ELSE LET calls  == InitAffinityCalls(v.cfg)
             failed == failAt \in 1..Len(calls)
             mask   == InitAffinityMask(v.cfg)
         IN  [ret |-> IF failed THEN 0 - 1 ELSE 0,
              err |-> IF failed THEN "SystemError" ELSE "none",
              set |-> IF ~failed /\ mask # NoMask
                      THEN <<[pid |-> v.pid, mask |-> mask]>>
                      ELSE << >>]

\* the placement settings of the VM followed through Start and Stop: a
\* top-level group without the CPU and CPUSET controllers, no masks, no
\* limits, one emulator thread, one I/O thread, two online vCPUs with thread
\* ids
MainCfg ==
    [ctl |-> {}, auto |-> FALSE, autoCpuset |-> NoMask,
     cpumask |-> NoMask, hostBitmap |-> TRUE, numaMode |-> "none",
     nodeset |-> NoMask, period |-> 0, quota |-> 0, vcpuPids |-> TRUE,
     vcpus |-> <<[online |-> TRUE, cpumask |-> NoMask],
                 [online |-> TRUE, cpumask |-> NoMask]>>,
     emuThreads |-> 1, emulatorpin |-> NoMask, emuPeriod |-> 0, emuQuota |-> 0,
     emulatorsched |-> "none", iothreads |-> <<1>>, ioPeriod |-> 0,
     ioQuota |-> 0, numaNodes |-> 1, withAffinity |-> TRUE]

\* sequences over S of length 0..n
SeqsUpTo(S, n) == UNION {[1..k -> S] : k \in 0..n}

\* the history of a call that has just begun; a return value of 1 stands for
\* "has not returned"
FreshObs(op, v) ==
    [lastOp |-> op, entry |-> v, ret |-> 1, stopRet |-> 1, attachRet |-> 1,
     connected |-> FALSE, err |-> "none",
     failedAt |-> "none", stopCalls |-> 0, trace |-> << >>, rmLog |-> << >>,
     monOpened |-> FALSE, sockOpened |-> FALSE, cgCreated |-> FALSE,
     reqSent |-> 0, respLog |-> << >>, atBoot |-> << >>,
     attachFail |-> "none", fdsOpen |-> 0, place |-> << >>,
     initAff |-> << >>, recv |-> << >>, info |-> << >>]

IdleCall ==
    [stopCaller |-> "none", stopReason |-> "none", startReason |-> "none",
     retries |-> 0, i |-> 0, nnic |-> 0, args |-> << >>]

Init ==
    /\ \E vt \in VirtTypes, qs \in SeqsUpTo(QueueCounts, MaxNets) :
          vm = [monitor |-> FALSE, monPid |-> NoPid, pid |-> NoPid, id |-> NoId,
                machineName |-> NoPid, cgroup |-> FALSE,
                state |-> "Shutoff", reason |-> "Unknown",
                virtType |-> vt, nets |-> qs, cfg |-> MainCfg]
    /\ \E caps \in SUBSET {"kvm", "hyperv"}, mfd \in BOOLEAN :
          driver = [caps |-> caps, multifd |-> mfd]
    /\ host = [cgroupExists |-> FALSE, hostNets |-> 0, devsUp |-> FALSE,
               nested |-> {}, conns |-> 0]
    /\ pc = "idle"
    /\ call = IdleCall
    /\ obs = FreshObs("none", vm)

(***************************************************************************)
(* virCHProcessStart                                                       *)
(***************************************************************************)
\* a step of Start succeeded: remember it and go on to the next statement
Advance(step) ==
    /\ pc' = StartNext(step)
    /\ obs' = [obs EXCEPT !.trace = Append(@, step)]

\* a step of Start failed with error e: return -1 at once, or goto cleanup,
\* where "if (ret) virCHProcessStop(driver, vm, VIR_DOMAIN_SHUTOFF_FAILED)"
FailWith(step, e, o) ==
    IF OnFail(step) = "cleanup"
    THEN /\ pc' = "Stop"
         /\ call' = [call EXCEPT !.stopCaller = "start", !.stopReason = "Failed"]
         /\ obs' = [o EXCEPT !.failedAt = step, !.err = e]
    ELSE /\ pc' = "idle"
         /\ call' = IdleCall
         /\ obs' = [o EXCEPT !.failedAt = step, !.err = e, !.ret = 0 - 1]

Fail(step, e) == FailWith(step, e, obs)

\* entry of virCHProcessStart: the activity test and virCHProcessStartValidate
StartCall(reason) ==
    /\ pc = "idle"
    /\ LET o == FreshObs("start", vm)
       IN  IF virDomainObjIsActive(vm.id)
           THEN /\ pc' = "idle"
                /\ call' = IdleCall
                /\ obs' = [o EXCEPT !.failedAt = "Validated",
                                    !.err = "OperationInvalid", !.ret = 0 - 1]
           ELSE IF virCHProcessStartValidate(vm.virtType, driver.caps) < 0
           THEN /\ pc' = "idle"
                /\ call' = IdleCall
                /\ obs' = [o EXCEPT !.failedAt = "Validated",
                                    !.err = "ConfigUnsupported", !.ret = 0 - 1]
           ELSE /\ pc' = StartNext("Validated")
                /\ call' = [IdleCall EXCEPT !.startReason = reason]
                /\ obs' = [o EXCEPT !.trace = <<"Validated">>]
    /\ UNCHANGED <<vm, driver, host>>

\* if (!priv->monitor) priv->monitor = virCHProcessConnectMonitor(driver, vm)
StartConnectMonitor ==
    /\ pc = "MonitorConnected"
    /\ IF vm.monitor
       THEN \* the block is skipped; lines 734-736 follow
            /\ vm' = AssignPid(vm)
            /\ pc' = StartNext("VMCreated")
            /\ UNCHANGED <<call, obs, host>>
       ELSE \E ok \in BOOLEAN, p \in VmmPids :
               IF ok
               THEN /\ vm' = [vm EXCEPT !.monitor = TRUE, !.monPid = p]
                    /\ host' = [host EXCEPT !.conns = @ + 1]
                    /\ pc' = StartNext("MonitorConnected")
                    /\ obs' = [obs EXCEPT !.trace = Append(@, "MonitorConnected"),
                                          !.monOpened = TRUE]
                    /\ UNCHANGED call
               ELSE /\ Fail("MonitorConnected", "InternalError")
                    /\ UNCHANGED <<vm, host>>
    /\ UNCHANGED driver

\* virCHMonitorCreateVM, then vm->pid, vm->def->id and priv->machineName
StartCreateVM ==
    /\ pc = "VMCreated"
    /\ \E ok \in BOOLEAN :
          IF ok
          THEN /\ vm' = AssignPid(vm)
               /\ Advance("VMCreated")
               /\ UNCHANGED call
          ELSE /\ Fail("VMCreated", "InternalError")
               /\ UNCHANGED vm
    /\ UNCHANGED <<driver, host>>

\* "return -1" inside chProcessAddNetworkDevices at the statement named by
\* why, which virCHProcessStart answers with "goto cleanup"
AddNetFail(o, why) ==
    FailWith("NetworksAttached", "InternalError",
             [o EXCEPT !.attachRet = 0 - 1, !.attachFail = why])

\* the same return after virCHConnetNetworkInterfaces has filled nicindexes
AddNetFailAt(c, o, why) ==
    /\ pc' = "Stop"
    /\ call' = [c EXCEPT !.stopCaller = "start", !.stopReason = "Failed"]
    /\ obs' = [o EXCEPT !.failedAt = "NetworksAttached", !.err = "InternalError",
                        !.attachRet = 0 - 1, !.attachFail = why]

\* the zero count left in the definition
QueuePairsMutant(q) == q

\* if (queues == 0) queues = 1; tapfd_len = queues
QueuePairs(q) == IF q = 0 THEN 1 ELSE q

\* chProcessAddNetworkDevices up to its loop: capability, socket(), the
\* socket path copy, connect(). mon_sockfd is VIR_AUTOCLOSE.
AddNetOpen ==
    /\ pc = "NetworksAttached"
    /\ IF ~driver.multifd
       THEN AddNetFail(obs, "nocap")
       ELSE \E out \in {"nosock", "pathlong", "noconn", "ok"} :
               IF out = "nosock"
               THEN AddNetFail(obs, out)
               ELSE IF out \in {"pathlong", "noconn"}
               THEN AddNetFail([obs EXCEPT !.sockOpened = TRUE], out)
               ELSE /\ pc' = "AddNetLoop"
                    /\ call' = [call EXCEPT !.i = 1]
                    /\ obs' = [obs EXCEPT !.sockOpened = TRUE,
                                          !.connected = TRUE]
    /\ UNCHANGED <<vm, driver, host>>

\* the buffers a receive can return, NULL included (poll <= 0 or recv < 0)
RecvResults == {<<"NULL">>} \cup {<<"buf", r>> : r \in Responses}

\* n results of a system call interrupted by a signal: -1 with errno EINTR
Interrupted(n) == [k \in 1..n |-> <<"eintr">>]

\* what successive calls of poll() return until one is not interrupted: a
\* negative result with another errno, 0 on timeout, 1 when readable
PollScripts ==
    {Interrupted(n) \o <<<<t>>>> :
        n \in 0..MaxEintr, t \in {"error", "timeout", "ready"}}

\* what successive calls of recv() return until one is not interrupted: a
\* negative result with another errno, or the bytes received
RecvScripts ==
    {Interrupted(n) \o <<t>> :
        n \in 0..MaxEintr, t \in {<<"error">>} \cup {<<"data", r>> : r \in Responses}}

\* do { ret = call } while (ret < 0 && errno == EINTR): the position in rets
\* of the result the loop ends with, the calls starting at position k
RECURSIVE RetryEintr(_, _)
RetryEintr(rets, k) ==
    IF k < Len(rets) /\ rets[k][1] = "eintr"
    THEN RetryEintr(rets, k + 1)
    ELSE k

\* a timeout taken for a readable socket
PollFailedMutant(ret) == ret = "error"

\* if (ret <= 0) after the poll loop
PollFailed(ret) == ret \in {"error", "timeout"}

\* chSocketRecv(sock) when poll() and recv() return what polls and recvs
\* say: the buffer returned and the results of the calls made
chSocketRecv(polls, recvs) ==
    LET np     == RetryEintr(polls, 1)
        polled == [j \in 1..np |-> polls[j][1]]
    IN  IF PollFailed(polls[np][1])
        THEN [buf |-> <<"NULL">>, polled |-> polled, recved |-> << >>]
        ELSE LET nr == RetryEintr(recvs, 1)
             IN  [buf |-> IF recvs[nr][1] = "error"
                          THEN <<"NULL">>
                          ELSE <<"buf", recvs[nr][2]>>,
                  polled |-> polled,
                  recved |-> [j \in 1..nr |-> recvs[j][1]]]

\* the outcomes of chSocketRecv over every series of results of poll() and
\* recv(), with the results of the calls made
LoggedOutcomes ==
    {LET rv == chSocketRecv(polls, recvs)
     IN  [buf |-> rv.buf,
          made |-> <<[polled |-> rv.polled, recved |-> rv.recved]>>] :
        polls \in PollScripts, recvs \in RecvScripts}

\* the same outcomes with the buffer alone
PlainOutcomes == {[buf |-> rv.buf, made |-> << >>] : rv \in LoggedOutcomes}

RecvOutcomes(log) == IF log THEN LoggedOutcomes ELSE PlainOutcomes

\* one iteration of the loop of chProcessAddNetworkDevices, for nets[call.i];
\* the history keeps the results of the poll() and recv() calls of
\* chSocketRecv when log is set
AddNetStep(log) ==
    /\ pc = "AddNetLoop"
    /\ IF call.i > Len(vm.nets)
       THEN \* return 0
            /\ pc' = StartNext("NetworksAttached")
            /\ obs' = [obs EXCEPT !.trace = Append(@, "NetworksAttached"),
                                  !.attachRet = 0, !.recv = << >>]
            /\ UNCHANGED <<vm, host, call>>
       ELSE LET q   == QueuePairs(vm.nets[call.i])
                v1  == [vm EXCEPT !.nets[call.i] = q]
                h1  == [host EXCEPT !.hostNets = @ + 1]
                \* virCHConnetNetworkInterfaces succeeded: the interface's
                \* index is in nicindexes and tapfds holds q descriptors
                c1  == [call EXCEPT !.nnic = @ + 1]
                \* no response has been waited for in this iteration yet
                o1  == [obs EXCEPT !.recv = << >>]
            IN  \E out \in {"invalid", "tapfail", "jsonfail", "sendfail", "sent"} :
                   /\ vm' = v1
                   /\ IF out \in {"invalid", "tapfail"}
                      THEN /\ AddNetFail(o1, out)
                           /\ UNCHANGED host
                      ELSE IF out = "jsonfail"
                      THEN \* return -1 with the descriptors still open
                           /\ host' = h1
                           /\ AddNetFailAt(c1, [o1 EXCEPT !.fdsOpen = q], out)
                      ELSE \* virSocketSendMsgWithFDs, then VIR_FORCE_CLOSE of
                           \* every descriptor whatever rc is
                           IF out = "sendfail"
                           THEN /\ host' = h1
                                /\ AddNetFailAt(c1, o1, out)
                           ELSE \E rv \in RecvOutcomes(log) :
                              LET rr == rv.buf
                                  o2 == [o1 EXCEPT !.reqSent = @ + 1,
                                                   !.recv = rv.made]
                              IN
                              /\ rr \in RecvResults
                              /\ host' = h1
                              /\ IF rr[1] = "NULL"
                                 THEN AddNetFailAt(c1, o2, "recvnull")
                                 ELSE LET o == [o2 EXCEPT
                                                  !.respLog = Append(@, rr[2])]
                                      IN  IF ResponseRejected(rr[2])
                                          THEN AddNetFailAt(c1, o, "status")
                                          ELSE /\ pc' = "AddNetLoop"
                                               /\ call' = [c1 EXCEPT !.i = @ + 1]
                                               /\ obs' = o
    /\ UNCHANGED driver

\* the iteration as followed through Start and Stop
AddNetIter == AddNetStep(FALSE)

\* virDomainCgroupSetupCgroup(..., &priv->cgroup, ...)
StartSetupCgroup ==
    /\ pc = "CgroupCreated"
    /\ \E ok \in BOOLEAN :
          IF ok
          THEN /\ vm' = [vm EXCEPT !.cgroup = TRUE]
               /\ host' = [host EXCEPT !.cgroupExists = TRUE]
               /\ pc' = StartNext("CgroupCreated")
               /\ obs' = [obs EXCEPT !.trace = Append(@, "CgroupCreated"),
                                     !.cgCreated = TRUE, !.respLog = << >>]
               /\ UNCHANGED call
          ELSE /\ FailWith("CgroupCreated", "InternalError",
                           [obs EXCEPT !.respLog = << >>])
               /\ UNCHANGED <<vm, host>>
    /\ UNCHANGED driver

\* virCHProcessInitCpuAffinity(vm)
StartInitAffinity ==
    /\ pc = "AffinityInitialized"
    /\ \E f \in 0..Len(InitAffinityCalls(vm.cfg)) :
          LET r == virCHProcessInitCpuAffinity(vm, f)
          IN  IF r.ret = 0
              THEN /\ pc' = StartNext("AffinityInitialized")
                   /\ obs' = [obs EXCEPT
                                 !.trace = Append(@, "AffinityInitialized"),
                                 !.initAff = r.set]
                   /\ UNCHANGED call
              ELSE Fail("AffinityInitialized", r.err)
    /\ UNCHANGED <<vm, driver, host>>

\* virDomainInterfaceStartDevices(vm->def): "return -1" on failure
StartNetDevicesUp ==
    /\ pc = "NetDevicesUp"
    /\ \E ok \in BOOLEAN :
          IF ok
          THEN /\ host' = [host EXCEPT !.devsUp = TRUE]
               /\ Advance("NetDevicesUp")
               /\ UNCHANGED call
          ELSE /\ Fail("NetDevicesUp", "SystemError")
               /\ UNCHANGED host
    /\ UNCHANGED <<vm, driver>>

\* virCHMonitorBootVM(priv->monitor)
StartBoot ==
    /\ pc = "Booted"
    /\ \E ok \in BOOLEAN :
          LET o == [obs EXCEPT !.atBoot = <<[hostNets |-> host.hostNets,
                                             cgroupExists |-> host.cgroupExists,
                                             devsUp |-> host.devsUp]>>]
          IN  IF ok
              THEN /\ pc' = StartNext("Booted")
                   /\ obs' = [o EXCEPT !.trace = Append(@, "Booted")]
                   /\ UNCHANGED call
              ELSE FailWith("Booted", "InternalError", o)
    /\ UNCHANGED <<vm, driver, host>>

\* a placement step of Start that loops over virCHProcessSetupPid: any one
\* collaborator call of any one of the calls may fail
PlaceLoop(step, ins) ==
    /\ pc = step
    /\ \E k \in 0..Len(ins) :
          \E f \in (IF k = 0 THEN {0} ELSE 1..Len(PidCalls(ins[k]))) :
             LET rs == SetupLoop(ins, k, f)
                 o  == [obs EXCEPT !.place = rs]
             IN  /\ host' = [host EXCEPT !.nested = NestedAfter(@, rs)]
                 /\ IF rs # << >> /\ rs[Len(rs)].r.ret < 0
                    THEN FailWith(step, rs[Len(rs)].r.err, o)
                    ELSE /\ pc' = StartNext(step)
                         /\ obs' = [o EXCEPT !.trace = Append(@, step)]
                         /\ UNCHANGED call
    /\ UNCHANGED <<vm, driver>>

\* virCHProcessSetupEmulatorThreads(vm)
StartSetupEmulatorThreads ==
    PlaceLoop("EmulatorThreadsPlaced", EmulatorIns(PrivCfg(vm)))

\* virCHProcessSetupIOThreads(vm): virCHMonitorGetIOThreads, then the loop
StartSetupIOThreads ==
    \/ /\ pc = "IOThreadsPlaced"
       /\ FailWith("IOThreadsPlaced", "InternalError", [obs EXCEPT !.place = << >>])
       /\ UNCHANGED <<vm, driver, host>>
    \/ PlaceLoop("IOThreadsPlaced", IOThreadIns(PrivCfg(vm)))

\* virDomainCgroupSetupGlobalCpuCgroup(vm, priv->cgroup)
StartPlace(step) ==
    /\ pc = step
    /\ \E ok \in BOOLEAN :
          IF ok
          THEN Advance(step) /\ UNCHANGED call
          ELSE Fail(step, "InternalError")
    /\ UNCHANGED <<vm, driver, host>>

\* virCHProcessSetupVcpus(vm)
StartSetupVcpus ==
    IF /\ BandwidthSet(vm.cfg.period, vm.cfg.quota)
       /\ ~HasController(PrivCfg(vm).ctl, "cpu")
    THEN /\ pc = "VCPUsPlaced"
         /\ FailWith("VCPUsPlaced", "ConfigUnsupported", [obs EXCEPT !.place = << >>])
         /\ UNCHANGED <<vm, driver, host>>
    ELSE IF ~vm.cfg.vcpuPids
    THEN /\ pc = "VCPUsPlaced"
         /\ IF VcpuAffinityRejected(vm.cfg)
            THEN FailWith("VCPUsPlaced", "OperationInvalid",
                          [obs EXCEPT !.place = << >>])
            ELSE /\ pc' = StartNext("VCPUsPlaced")
                 /\ obs' = [obs EXCEPT !.trace = Append(@, "VCPUsPlaced"),
                                       !.place = << >>]
                 /\ UNCHANGED call
         /\ UNCHANGED <<vm, driver, host>>
    ELSE PlaceLoop("VCPUsPlaced", VcpuIns(PrivCfg(vm)))

\* what the info query and the console fields of its answer can be: the
\* query fails, its answer has no 'config', a console device or its 'file'
\* is missing or unreadable, or every field is there
InfoOutcomes == {"queryfail", "noconfig", "nofield", "ok"}

\* virCHProcessUpdateInfo(vm): -1 when virCHMonitorGetInfo fails, else 0
\* whatever virCHProcessUpdateConsole found; the console path is stored
\* only when every field is there
virCHProcessUpdateInfo(out) ==
    [ret |-> IF out = "queryfail" THEN 0 - 1 ELSE 0, path |-> out = "ok"]

\* a failed query sent to the cleanup label
InfoResultFatalMutant(ret) == ret < 0

\* line 786 calls virCHProcessUpdateInfo as a statement: its value is not
\* looked at
InfoResultFatal(ret) == FALSE

\* virCHProcessUpdateInfo(vm); virDomainObjSetState(vm, VIR_DOMAIN_RUNNING,
\* reason); return 0
StartRunning ==
    /\ pc = "Running"
    /\ \E out \in InfoOutcomes :
          LET r == virCHProcessUpdateInfo(out)
              o == [obs EXCEPT !.info = <<[ret |-> r.ret, path |-> r.path,
                                          reason |-> call.startReason]>>]
          IN  IF InfoResultFatal(r.ret)
              THEN /\ FailWith("Running", "InternalError", o)
                   /\ UNCHANGED vm
              ELSE /\ vm' = [vm EXCEPT !.state = "Running",
                                       !.reason = call.startReason]
                   /\ pc' = "idle"
                   /\ call' = IdleCall
                   /\ obs' = [o EXCEPT !.trace = Append(@, "Running"),
                                       !.ret = 0]
    /\ UNCHANGED <<driver, host>>

(***************************************************************************)
(* virCHProcessStop                                                        *)
(***************************************************************************)
\* a caller invokes virCHProcessStop(driver, vm, reason)
StopCall(reason) ==
    /\ pc = "idle"
    /\ pc' = "Stop"
    /\ call' = [IdleCall EXCEPT !.stopCaller = "api", !.stopReason = reason]
    /\ obs' = FreshObs("stop", vm)
    /\ UNCHANGED <<vm, driver, host>>

\* close the monitor if present, virDomainInterfaceStopDevices (result
\* ignored), virDomainInterfaceDeleteDevice for every net
StopBegin ==
    /\ pc = "Stop"
    /\ vm' = [vm EXCEPT !.monitor = FALSE, !.monPid = NoPid]
    /\ \E down \in BOOLEAN :
          host' = [host EXCEPT !.hostNets = 0,
                               !.devsUp = IF down THEN FALSE ELSE @,
                               !.conns = ConnsAfterStop(vm, @)]
    /\ call' = [call EXCEPT !.retries = 0, !.i = 0, !.nnic = 0]
    /\ obs' = [obs EXCEPT !.stopCalls = @ + 1, !.rmLog = << >>,
                          !.respLog = << >>, !.attachFail = "none",
                          !.fdsOpen = 0, !.place = << >>,
                          !.initAff = << >>, !.recv = << >>,
                          !.info = << >>]
    /\ pc' = "StopRemoveCgroup"
    /\ UNCHANGED driver

\* retry: one call of virDomainCgroupRemoveCgroup and the test of its result
StopRemoveCgroup ==
    /\ pc = "StopRemoveCgroup"
    /\ \E r \in {0, 0 - EBUSY, 0 - 1} :
          /\ obs' = [obs EXCEPT !.rmLog = Append(@, r)]
          /\ host' = IF r = 0 THEN CgroupRemoved(host) ELSE host
          /\ IF r < 0 /\ CgroupRetry(r, call.retries)
             THEN /\ pc' = "StopRemoveCgroup"
                  /\ call' = [call EXCEPT !.retries = @ + 1]
             ELSE /\ pc' = "StopFinish"
                  /\ call' = [call EXCEPT !.retries =
                                 IF r = 0 - EBUSY THEN @ + 1 ELSE @]
    /\ UNCHANGED <<vm, driver>>

\* vm->pid = 0 ... virDomainObjSetState(vm, VIR_DOMAIN_SHUTOFF, reason);
\* return 0; a Stop called from Start's cleanup label makes Start return -1
StopFinish ==
    /\ pc = "StopFinish"
    /\ vm' = StopFinal(vm, call.stopReason)
    /\ pc' = "idle"
    /\ obs' = [obs EXCEPT !.stopRet = 0,
                          !.ret = IF call.stopCaller = "start" THEN 0 - 1 ELSE 0]
    /\ call' = [IdleCall EXCEPT !.stopReason = call.stopReason]
    /\ UNCHANGED <<driver, host>>

Next ==
    \/ \E r \in RunningReasons : StartCall(r)
    \/ StartConnectMonitor
    \/ StartCreateVM
    \/ AddNetOpen
    \/ AddNetIter
    \/ StartSetupCgroup
    \/ StartInitAffinity
    \/ StartNetDevicesUp
    \/ StartBoot
    \/ StartSetupEmulatorThreads
    \/ StartSetupIOThreads
    \/ StartPlace("GlobalCpuCgroupSet")
    \/ StartSetupVcpus
    \/ StartRunning
    \/ \E r \in ShutoffReasons : StopCall(r)
    \/ StopBegin
    \/ StopRemoveCgroup
    \/ StopFinish

Spec == Init /\ [][Next]_vars

(***************************************************************************)
(* Start and Stop of a VM whose top-level group has the CPU and CPUSET     *)
(* controllers, so that placement makes nested groups                      *)
(***************************************************************************)
\* the most network interfaces of that VM
LifeNets == 1

\* two emulator threads, which share the nested group of key (emulator, 0)
LifeCfg == [MainCfg EXCEPT !.ctl = {"cpu", "cpuset"}, !.emuThreads = 2]

InitLife ==
    /\ \E qs \in SeqsUpTo(QueueCounts, LifeNets) :
          vm = [monitor |-> FALSE, monPid |-> NoPid, pid |-> NoPid, id |-> NoId,
                machineName |-> NoPid, cgroup |-> FALSE,
                state |-> "Shutoff", reason |-> "Unknown",
                virtType |-> "kvm", nets |-> qs, cfg |-> LifeCfg]
    /\ driver = [caps |-> {"kvm"}, multifd |-> TRUE]
    /\ host = [cgroupExists |-> FALSE, hostNets |-> 0, devsUp |-> FALSE,
               nested |-> {}, conns |-> 0]
    /\ pc = "idle"
    /\ call = IdleCall
    /\ obs = FreshObs("none", vm)

SpecLife == InitLife /\ [][Next]_vars

(***************************************************************************)
(* Placement over every setting: virCHProcessSetupPid called on its own,   *)
(* and virCHProcessSetupVcpus as the step of a Start that has booted the   *)
(* VM, followed to the return of Start                                     *)
(***************************************************************************)
\* the most vCPUs of a definition
MaxVcpus == 2

Periods == {0, 100000}

Quotas == {0 - 1, 0, 50000}

\* per-entity masks
CpuMasks == {NoMask, Mask({0}), Mask({0, 1})}

\* every combination of arguments and context of virCHProcessSetupPid
PidInputs ==
    [nameval : {"emulator", "iothread", "vcpu"}, id : {0},
     cpumask : {NoMask, Mask({0})}, period : Periods, quota : Quotas,
     sched : {"none", "fifo"}, ctl : SUBSET {"cpu", "cpuset"},
     auto : BOOLEAN, autoCpuset : {NoMask, Mask({1})},
     defCpumask : {NoMask, Mask({0, 1})}, hostBitmap : BOOLEAN,
     numaMode : {"none", "strict", "interleave"},
     nodeset : {NoMask, Mask({0})}]

\* the settings virCHProcessSetupVcpus reads
VcpuCfgs ==
    {[MainCfg EXCEPT !.ctl = c, !.period = p, !.quota = q, !.cpumask = m,
                     !.vcpuPids = h, !.vcpus = vs] :
        c \in SUBSET {"cpu", "cpuset"}, p \in Periods, q \in Quotas,
        m \in {NoMask, Mask({0, 1})}, h \in BOOLEAN,
        vs \in [1..MaxVcpus -> [online : BOOLEAN, cpumask : CpuMasks]]}

\* the VM before the Start that is under way
ShutoffVm(cfg) ==
    [monitor |-> FALSE, monPid |-> NoPid, pid |-> NoPid, id |-> NoId,
     machineName |-> NoPid, cgroup |-> FALSE, state |-> "Shutoff",
     reason |-> "Unknown", virtType |-> "kvm", nets |-> << >>, cfg |-> cfg]

\* the same VM once virCHProcessStart has booted it
BootedVm(cfg) ==
    AssignPid([ShutoffVm(cfg) EXCEPT !.monitor = TRUE,
                                     !.monPid = CHOOSE p \in VmmPids : TRUE,
                                     !.cgroup = TRUE])

\* the history of that Start up to the placement of the vCPUs
BootedObs(cfg) ==
    [FreshObs("start", ShutoffVm(cfg)) EXCEPT
        !.attachRet = 0, !.connected = TRUE, !.monOpened = TRUE,
        !.sockOpened = TRUE, !.cgCreated = TRUE,
        !.atBoot = <<[hostNets |-> 0, cgroupExists |-> TRUE, devsUp |-> TRUE]>>,
        !.initAff = virCHProcessInitCpuAffinity(BootedVm(cfg), 0).set,
        !.trace = <<"Validated", "MonitorConnected", "VMCreated",
                    "NetworksAttached", "CgroupCreated", "AffinityInitialized",
                    "NetDevicesUp", "Booted", "EmulatorThreadsPlaced",
                    "IOThreadsPlaced", "GlobalCpuCgroupSet">>]

\* the history of that Start up to the creation of the cgroup
CgroupObs(cfg) ==
    [FreshObs("start", ShutoffVm(cfg)) EXCEPT
        !.attachRet = 0, !.connected = TRUE, !.monOpened = TRUE,
        !.sockOpened = TRUE, !.cgCreated = TRUE,
        !.trace = <<"Validated", "MonitorConnected", "VMCreated",
                    "NetworksAttached", "CgroupCreated">>]

\* the settings virCHProcessInitCpuAffinity reads, and the two builds
AffinityCfgs ==
    {[MainCfg EXCEPT !.auto = a, !.autoCpuset = ac, !.cpumask = m,
                     !.emulatorpin = e, !.numaMode = nm, !.nodeset = ns,
                     !.numaNodes = nn, !.hostBitmap = hb,
                     !.withAffinity = wa] :
        a \in BOOLEAN, ac \in {NoMask, Mask({1})},
        m \in {NoMask, Mask({0, 1})}, e \in {NoMask, Mask({0})},
        nm \in {"none", "strict", "interleave"},
        ns \in {NoMask, Mask({1})}, nn \in {1, 2}, hb \in BOOLEAN,
        wa \in BOOLEAN}

\* virDomainRunningReason values of a Start whose vCPUs have been placed
PlaceReasons == {"Booted", "Restored"}

InitPlace ==
    /\ driver = [caps |-> {"kvm"}, multifd |-> TRUE]
    /\ \/ /\ pc = "SetupPid"
          /\ vm = BootedVm(MainCfg)
          /\ \E in \in PidInputs : call = [IdleCall EXCEPT !.args = in]
          /\ host = [cgroupExists |-> TRUE, hostNets |-> 0, devsUp |-> TRUE,
                     nested |-> {}, conns |-> 1]
          /\ obs = BootedObs(vm.cfg)
       \/ /\ pc = "VCPUsPlaced"
          /\ \E cfg \in VcpuCfgs : vm = BootedVm(cfg)
          /\ call = [IdleCall EXCEPT !.startReason = "Booted"]
          /\ host = [cgroupExists |-> TRUE, hostNets |-> 0, devsUp |-> TRUE,
                     nested |-> NestedAfter({}, SetupLoop(EmulatorIns(vm.cfg), 0, 0)
                                               \o SetupLoop(IOThreadIns(vm.cfg), 0, 0)),
                     conns |-> 1]
          /\ obs = BootedObs(vm.cfg)
       \/ /\ pc = "AffinityInitialized"
          /\ \E cfg \in AffinityCfgs : vm = BootedVm(cfg)
          /\ call = [IdleCall EXCEPT !.startReason = "Booted"]
          /\ host = [cgroupExists |-> TRUE, hostNets |-> 0, devsUp |-> FALSE,
                     nested |-> {}, conns |-> 1]
          /\ obs = CgroupObs(vm.cfg)
       \/ /\ pc = "Running"
          /\ vm = BootedVm(MainCfg)
          /\ \E reason \in PlaceReasons :
                call = [IdleCall EXCEPT !.startReason = reason]
          /\ host = [cgroupExists |-> TRUE, hostNets |-> 0, devsUp |-> TRUE,
                     nested |-> {}, conns |-> 1]
          /\ obs = [BootedObs(vm.cfg) EXCEPT !.trace = Append(@, "VCPUsPlaced")]

\* one call of virCHProcessSetupPid in which any one collaborator call may
\* fail
PlaceThread ==
    /\ pc = "SetupPid"
    /\ \E f \in 0..Len(PidCalls(call.args)) :
          LET p == [in |-> call.args, r |-> virCHProcessSetupPid(call.args, f)]
          IN  /\ obs' = [obs EXCEPT !.place = <<p>>]
              /\ host' = [host EXCEPT !.nested = NestedAfter(@, <<p>>)]
    /\ pc' = "SetupPidDone"
    /\ UNCHANGED <<vm, driver, call>>

NextPlace ==
    \/ PlaceThread
    \/ StartInitAffinity
    \/ StartSetupVcpus
    \/ StartRunning
    \/ StopBegin
    \/ StopRemoveCgroup
    \/ StopFinish

SpecPlace == InitPlace /\ [][NextPlace]_vars

(***************************************************************************)
(* The wait for a response: virCHProcessStart inside the loop of           *)
(* chProcessAddNetworkDevices, with the results of poll() and recv() kept  *)
(***************************************************************************)
\* the VM whose Start has connected the monitor, created the VM and taken
\* the pid of the VMM, with the interfaces nets
CreatedVm(nets, p) ==
    AssignPid([ShutoffVm(MainCfg) EXCEPT !.monitor = TRUE, !.monPid = p,
                                         !.nets = nets])

\* the history of that Start up to the connect() to the monitor socket
ConnectedObs(nets) ==
    [FreshObs("start", [ShutoffVm(MainCfg) EXCEPT !.nets = nets]) EXCEPT
        !.connected = TRUE, !.monOpened = TRUE, !.sockOpened = TRUE,
        !.trace = <<"Validated", "MonitorConnected", "VMCreated">>]

InitRecv ==
    /\ driver = [caps |-> {"kvm"}, multifd |-> TRUE]
    /\ \E qs \in SeqsUpTo(QueueCounts, MaxNets), p \in VmmPids :
          /\ vm = CreatedVm(qs, p)
          /\ obs = ConnectedObs(qs)
    /\ host = [cgroupExists |-> FALSE, hostNets |-> 0, devsUp |-> FALSE,
               nested |-> {}, conns |-> 1]
    /\ pc = "AddNetLoop"
    /\ call = [IdleCall EXCEPT !.startReason = "Booted", !.i = 1]

NextRecv ==
    \/ AddNetStep(TRUE)
    \/ StopBegin
    \/ StopRemoveCgroup
    \/ StopFinish

SpecRecv == InitRecv /\ [][NextRecv]_vars

(***************************************************************************)
(* Properties                                                              *)
(***************************************************************************)
Idle == pc = "idle"

StartReturned == pc = "idle" /\ obs.lastOp = "start"

StopReturned == pc = "idle" /\ obs.lastOp = "stop"

\* a Stop (called directly or from Start's cleanup label) has run to its end
StopCompleted == pc = "idle" /\ obs.stopCalls > 0

Last(q) == q[Len(q)]

\* C1: Stop never fails. Whatever the VM state it starts from and whatever
\* the outcomes of the monitor close, the interface bring-down, the
\* per-network removal and the cgroup removal (success, busy, other
\* failure), Stop makes a bounded number of removal attempts, returns 0 and
\* leaves no monitor handle, pid 0, id -1, no machine name and state Shutoff
\* with the reason its caller supplied.
C1_StopNeverFails ==
    /\ Len(obs.rmLog) <= 6
    /\ StopCompleted =>
          /\ obs.stopRet = 0
          /\ ~vm.monitor
          /\ vm.pid = 0
          /\ vm.id = 0 - 1
          /\ vm.machineName = NoPid
          /\ vm.state = "Shutoff"
          /\ vm.reason = call.stopReason
          /\ call.stopReason \in ShutoffReasons \cup {"Failed"}

\* a Stop of a Running VM whose cgroup removal failed (not busy) has returned
C1_Witness ==
    /\ StopReturned
    /\ obs.entry.state = "Running"
    /\ obs.entry.monitor
    /\ Len(obs.rmLog) = 1
    /\ Last(obs.rmLog) = 0 - 1
    /\ vm.state = "Shutoff"

\* C2 as stated: every failure of Start at a state other than NetDevicesUp
\* invokes Stop exactly once, so the monitor is closed, the pid is 0 and the
\* domain is Shutoff with reason Failed.
C2_Original ==
    (StartReturned /\ obs.ret = 0 - 1 /\ obs.failedAt # "NetDevicesUp") =>
        /\ obs.stopCalls = 1
        /\ ~vm.monitor
        /\ vm.pid = 0
        /\ vm.state = "Shutoff"
        /\ vm.reason = "Failed"

\* C2 amended: every failure of Start at a state other than Validated and
\* NetDevicesUp invokes Stop exactly once before Start returns, leaving the
\* monitor closed, pid 0 and state Shutoff with reason Failed; a failure at
\* Validated (VM already active, or backend unsupported) returns at once
\* without invoking Stop and leaves the VM record as it was.
C2_StartFailureStops ==
    /\ (StartReturned /\ obs.ret = 0 - 1
          /\ obs.failedAt \notin {"Validated", "NetDevicesUp"}) =>
            /\ obs.stopCalls = 1
            /\ ~vm.monitor
            /\ vm.pid = 0
            /\ vm.state = "Shutoff"
            /\ vm.reason = "Failed"
    /\ (StartReturned /\ obs.failedAt = "Validated") =>
            /\ obs.ret = 0 - 1
            /\ obs.stopCalls = 0
            /\ vm = obs.entry
    /\ (StartReturned /\ obs.ret = 0 - 1) => obs.failedAt # "none"

\* Start has failed at the boot command, after the cgroup was created
C2_Witness ==
    /\ StartReturned
    /\ obs.ret = 0 - 1
    /\ obs.failedAt = "Booted"
    /\ obs.cgCreated
    /\ obs.stopCalls = 1
    /\ vm.reason = "Failed"

\* C3: when host-side interface bring-up fails, Start returns failure without
\* invoking Stop: the monitor stays open, pid and id keep the VMM pid, the
\* top-level cgroup is still there, the attached networks are not torn down
\* and the domain state is not set to Shutoff (state and reason are those
\* found on entry).
C3_NetDevFailureSkipsStop ==
    (StartReturned /\ obs.failedAt = "NetDevicesUp") =>
        /\ obs.ret = 0 - 1
        /\ obs.stopCalls = 0
        /\ vm.monitor
        /\ vm.monPid \in VmmPids
        /\ vm.pid = vm.monPid
        /\ vm.id = vm.monPid
        /\ vm.cgroup
        /\ host.cgroupExists
        /\ host.hostNets = Len(vm.nets)
        /\ vm.state = obs.entry.state
        /\ vm.reason = obs.entry.reason
        /\ vm.reason # "Failed" \/ obs.entry.reason = "Failed"

\* interface bring-up has failed for a VM with two attached networks
C3_Witness ==
    /\ StartReturned
    /\ obs.failedAt = "NetDevicesUp"
    /\ Len(vm.nets) = 2
    /\ host.hostNets = 2
    /\ vm.reason = "Unknown"

\* C4: between calls, either pid is 0 and the domain is not Running, or pid
\* is the monitor's VMM pid and the domain is Running.
C4_NoTransientStateVisible ==
    Idle =>
        \/ vm.pid = 0 /\ vm.state # "Running"
        \/ vm.monitor /\ vm.pid = vm.monPid /\ vm.pid # 0 /\ vm.state = "Running"

\* C5: when every cgroup-removal attempt reports busy, the removal is retried
\* exactly 5 times after the first attempt (6 attempts) and then given up,
\* and Stop still ends in Shutoff; an attempt that fails otherwise (or
\* succeeds) is the last one.
C5_CgroupRemovalRetry ==
    /\ \A k \in 1..Len(obs.rmLog) :
          obs.rmLog[k] # 0 - EBUSY => k = Len(obs.rmLog)
    /\ Len(obs.rmLog) <= 6
    /\ StopCompleted =>
          /\ Len(obs.rmLog) >= 1
          /\ vm.state = "Shutoff"
          /\ Last(obs.rmLog) = 0 - EBUSY => Len(obs.rmLog) = 6

\* Stop has returned after six busy attempts
C5_Witness ==
    /\ StopCompleted
    /\ Len(obs.rmLog) = 6
    /\ \A k \in 1..6 : obs.rmLog[k] = 0 - EBUSY
    /\ vm.state = "Shutoff"

\* the VM was stopped when the call began
EntryStopped ==
    /\ ~obs.entry.monitor
    /\ obs.entry.pid = 0
    /\ obs.entry.state = "Shutoff"

\* C6 as stated: Stop on a stopped VM returns success and leaves every field
\* of the VM record unchanged, the recorded shutoff reason included.
C6_Original ==
    (StopReturned /\ EntryStopped) => obs.ret = 0 /\ vm = obs.entry

\* C6 amended: Stop on a stopped VM returns success and leaves every field of
\* the VM record unchanged except the shutoff reason, which becomes the
\* reason the second call supplies.
C6_StopOnStopped ==
    (StopReturned /\ EntryStopped) =>
        /\ obs.ret = 0
        /\ vm = [obs.entry EXCEPT !.reason = call.stopReason]
        /\ call.stopReason \in ShutoffReasons

\* a second Stop has overwritten the reason recorded by an earlier Stop
C6_Witness ==
    /\ StopReturned
    /\ EntryStopped
    /\ obs.entry.reason \in ShutoffReasons \cup {"Failed"}
    /\ vm.reason # obs.entry.reason

\* C7: Start on an active VM is rejected with OperationInvalid and changes
\* nothing: no step of Start runs, Stop is not invoked, no monitor or socket
\* is opened, no request is sent and the VM record is as it was.
C7_StartOnActiveRejected ==
    (obs.lastOp = "start" /\ obs.entry.id # 0 - 1) =>
        /\ pc = "idle"
        /\ obs.ret = 0 - 1
        /\ obs.err = "OperationInvalid"
        /\ obs.stopCalls = 0
        /\ obs.trace = << >>
        /\ ~obs.monOpened
        /\ ~obs.sockOpened
        /\ ~obs.cgCreated
        /\ obs.reqSent = 0
        /\ vm = obs.entry

\* Start was called on a Running VM and has returned
C7_Witness ==
    /\ StartReturned
    /\ obs.entry.id \in VmmPids
    /\ obs.entry.state = "Running"
    /\ obs.err = "OperationInvalid"
    /\ vm.state = "Running"

\* the domain's backend is not one of the two supported or the host lacks it
BackendUnavailable ==
    \/ vm.virtType \notin {"kvm", "hyperv"}
    \/ vm.virtType \notin driver.caps

\* C8: Start of an inactive VM whose backend is unavailable fails at Validated
\* with ConfigUnsupported; no monitor connection was made, no control socket
\* opened, no request sent and no cgroup created.
C8_BackendUnavailable ==
    (obs.lastOp = "start" /\ obs.entry.id = 0 - 1 /\ BackendUnavailable) =>
        /\ pc = "idle"
        /\ obs.ret = 0 - 1
        /\ obs.err = "ConfigUnsupported"
        /\ obs.failedAt = "Validated"
        /\ ~obs.monOpened
        /\ ~obs.sockOpened
        /\ ~obs.cgCreated
        /\ obs.reqSent = 0
        /\ ~vm.monitor
        /\ ~vm.cgroup \/ obs.entry.cgroup

\* a KVM domain was started on a host that offers only the other backend
C8_Witness ==
    /\ StartReturned
    /\ vm.virtType = "kvm"
    /\ driver.caps = {"hyperv"}
    /\ obs.err = "ConfigUnsupported"

\* the order of the states as the specification lists them
ClaimedOrder ==
    <<"Validated", "MonitorConnected", "VMCreated", "NetworksAttached",
      "CgroupCreated", "AffinityInitialized", "NetDevicesUp", "Booted",
      "EmulatorThreadsPlaced", "IOThreadsPlaced", "GlobalCpuCgroupSet",
      "VCPUsPlaced", "Running">>

\* the step Start is at (the attach loop belongs to NetworksAttached)
StepAt == IF pc = "AddNetLoop" THEN "NetworksAttached" ELSE pc

\* C9: the steps of Start happen in the listed order and a step is attempted
\* only after every earlier one succeeded: the steps that have succeeded are
\* always an initial part of the order, the step being attempted is the next
\* one, the boot command is issued only with all networks attached, the
\* cgroup present and the interfaces up, and the domain becomes Running only
\* after every step, the vCPU placement included, succeeded.
C9_StartOrder ==
    /\ Len(obs.trace) <= Len(ClaimedOrder)
    /\ obs.trace = SubSeq(ClaimedOrder, 1, Len(obs.trace))
    /\ \A k \in 1..Len(ClaimedOrder) :
          StepAt = ClaimedOrder[k] => Len(obs.trace) = k - 1
    /\ obs.atBoot # << >> =>
          /\ obs.atBoot[1].hostNets = Len(vm.nets)
          /\ obs.atBoot[1].cgroupExists
          /\ obs.atBoot[1].devsUp
          /\ Len(obs.trace) >= 7
    /\ (obs.lastOp = "start" /\ vm.state = "Running" /\ obs.entry.state # "Running")
          => obs.trace = ClaimedOrder
    /\ (StartReturned /\ obs.ret = 0) => obs.trace = ClaimedOrder /\ vm.state = "Running"

\* a Start with two networks has run to Running
C9_Witness ==
    /\ StartReturned
    /\ obs.ret = 0
    /\ vm.state = "Running"
    /\ Len(vm.nets) = 2
    /\ Len(obs.trace) = 13

\* chProcessAddNetworkDevices has just returned to virCHProcessStart
AttachReturned ==
    /\ obs.attachRet # 1
    /\ \/ pc = "CgroupCreated"
       \/ pc = "Stop" /\ obs.stopCalls = 0 /\ obs.failedAt = "NetworksAttached"

\* responses that begin HTTP/1.<minor> <code> with code 200 or 204, white
\* space (a line break included) allowed before the code
AcceptableResponses == {R200, R204, R200v0, RWrapped}

\* responses whose first line is HTTP/1.<minor> <code> with code 200 or 204
StatusLine2xx == {R200, R204, R200v0}

AllAnswered(ok) ==
    \A k \in 1..Len(vm.nets) : k <= Len(obs.respLog) /\ obs.respLog[k] \in ok

\* C10 as stated: attachNetworks returns success if and only if every network
\* definition got a response whose first line is a status line with code 200
\* or 204; any other response fails the call at that interface and no later
\* request is sent.
C10_Original ==
    /\ AttachReturned => (obs.attachRet = 0 <=> AllAnswered(StatusLine2xx))
    /\ \A k \in 1..Len(obs.respLog) :
          obs.respLog[k] \notin StatusLine2xx =>
             /\ k = Len(obs.respLog)
             /\ obs.reqSent = k
             /\ obs.attachRet = 0 - 1

\* C10 amended: attachNetworks returns success if and only if the control
\* socket was connected (which needs the add-net capability) and every
\* network definition, in order, got a response from which the scan
\* "HTTP/1.<int> <int>" reads the code 200 or 204 (the scan skips white
\* space, line breaks included, before each number); any other code, or a
\* response from which the scan reads no code, fails the call at that
\* interface, and no request is sent for a later interface.
C10_AttachStatus ==
    /\ AttachReturned =>
          (obs.attachRet = 0 <=>
              (obs.connected /\ driver.multifd /\ AllAnswered(AcceptableResponses)))
    /\ obs.attachRet = 0 => obs.reqSent = Len(vm.nets)
    /\ \A k \in 1..Len(obs.respLog) :
          obs.respLog[k] \notin AcceptableResponses =>
             /\ k = Len(obs.respLog)
             /\ obs.reqSent = k
             /\ obs.attachRet = 0 - 1
    /\ obs.reqSent <= Len(vm.nets)
    /\ Len(obs.respLog) <= obs.reqSent

\* the second of two interfaces was answered 500 after the first was accepted
C10_Witness ==
    /\ AttachReturned
    /\ obs.attachRet = 0 - 1
    /\ Len(vm.nets) = 2
    /\ obs.respLog = <<R204, R500>>
    /\ obs.reqSent = 2

\* chProcessAddNetworkDevices has just returned -1 to virCHProcessStart
AttachFailed == AttachReturned /\ obs.attachRet = 0 - 1

\* failures that come after virCHConnetNetworkInterfaces filled nicindexes
AfterTapKinds == {"jsonfail", "sendfail", "recvnull", "status"}

\* C11 as stated: when attachNetworks returns failure, whatever the reason
\* and the interface, the interface-index list handed back and the network
\* definitions with their queue-pair counts are as they were before the call.
C11_Original ==
    AttachFailed => (vm.nets = obs.entry.nets /\ call.nnic = 0)

\* C11 amended: when attachNetworks returns failure, every interface the loop
\* reached (the failing one included) whose queue-pair count was zero has the
\* count 1 in the definition, all other counts and the definitions of the
\* interfaces after the failing one are as before the call, and the
\* interface-index list holds one entry for each interface whose taps were
\* connected: those before the failing one, and the failing one when the
\* failure came after its tap allocation. A failure before the loop
\* (capability, socket, path, connect) changes neither.
C11_AttachFailureEffect ==
    AttachFailed =>
       /\ call.i \in 0..Len(vm.nets)
       /\ Len(vm.nets) = Len(obs.entry.nets)
       /\ \A k \in 1..Len(vm.nets) :
             vm.nets[k] = IF k <= call.i /\ obs.entry.nets[k] = 0
                          THEN 1 ELSE obs.entry.nets[k]
       /\ call.i = 0 => call.nnic = 0
       /\ call.i > 0 =>
             call.nnic = IF obs.attachFail \in AfterTapKinds
                         THEN call.i ELSE call.i - 1

\* the second of two interfaces with unset queue counts was refused by its
\* validation after the first was accepted
C11_Witness ==
    /\ AttachFailed
    /\ obs.attachFail = "invalid"
    /\ obs.entry.nets = <<0, 0>>
    /\ vm.nets = <<1, 1>>
    /\ call.nnic = 1

\* C12: tap file descriptors are never leaked: on every exit path of
\* attachNetworks, the failure to serialize the definition included, every
\* descriptor allocated during the call is closed when the call returns, and
\* each interface's descriptors are closed before the next interface is
\* taken up.
C12_NoTapFdLeak ==
    (AttachReturned \/ pc = "AddNetLoop") => obs.fdsOpen = 0

\* C13: any failure inside network attachment during Start (capability,
\* socket, connect, validation, tap allocation, serialization, send, response
\* timeout, rejected status) hands control to Stop, and Start returns -1 with
\* Stop run once: state Shutoff with reason Failed, no monitor, pid 0, and a
\* cgroup removal attempted although the call created no cgroup.
C13_AttachFailureStops ==
    /\ obs.attachFail # "none" <=> AttachFailed
    /\ obs.attachRet = 0 - 1 =>
          /\ obs.failedAt = "NetworksAttached"
          /\ obs.lastOp = "start"
          /\ pc \in {"Stop", "StopRemoveCgroup", "StopFinish", "idle"}
          /\ pc # "idle" => call.stopCaller = "start" /\ call.stopReason = "Failed"
          /\ ~obs.cgCreated
    /\ (StartReturned /\ obs.failedAt = "NetworksAttached") =>
          /\ obs.attachRet = 0 - 1
          /\ obs.ret = 0 - 1
          /\ obs.stopCalls = 1
          /\ vm.state = "Shutoff"
          /\ vm.reason = "Failed"
          /\ ~vm.monitor
          /\ vm.pid = 0
          /\ Len(obs.rmLog) >= 1

\* Start has returned after the connect to the control socket failed
C13_Witness ==
    /\ StartReturned
    /\ obs.failedAt = "NetworksAttached"
    /\ obs.sockOpened
    /\ ~obs.connected
    /\ obs.entry.nets # << >>
    /\ obs.stopCalls = 1
    /\ vm.reason = "Failed"

\* virCHProcessSetupVcpus has just returned to virCHProcessStart
VcpusReturned ==
    \/ pc = "Running" /\ Last(obs.trace) = "VCPUsPlaced"
    \/ pc = "Stop" /\ obs.stopCalls = 0 /\ obs.failedAt = "VCPUsPlaced"

\* some vCPU, online or not, has a mask of its own that is not the VM's
SomeVcpuDiffers ==
    \E i \in 1..Len(vm.cfg.vcpus) :
       /\ vm.cfg.vcpus[i].cpumask # NoMask
       /\ vm.cfg.vcpus[i].cpumask # vm.cfg.cpumask

\* some online vCPU has a mask of its own that is not the VM's
SomeOnlineVcpuDiffers ==
    \E i \in 1..Len(vm.cfg.vcpus) :
       /\ vm.cfg.vcpus[i].online
       /\ vm.cfg.vcpus[i].cpumask # NoMask
       /\ vm.cfg.vcpus[i].cpumask # vm.cfg.cpumask

\* the vCPU period or quota is non-zero and the CPU controller is missing
VcpuTuneUnsupported ==
    (vm.cfg.period # 0 \/ vm.cfg.quota # 0) /\ "cpu" \notin vm.cfg.ctl

CallsOf(p, op) == {k \in 1..Len(p.r.calls) : p.r.calls[k].op = op}

\* C15: for every thread class and every combination of the CPU and CPUSET
\* controllers (both missing included), a successful placeThread given a
\* non-empty mask of its own sets the affinity of the thread once, to
\* exactly that mask.
C15_ExplicitMaskApplied ==
    \A j \in 1..Len(obs.place) :
       LET p == obs.place[j]
       IN  (p.r.ret = 0 /\ p.in.cpumask # NoMask) =>
              /\ Cardinality(CallsOf(p, "setaffinity")) = 1
              /\ \A k \in CallsOf(p, "setaffinity") :
                    p.r.calls[k].mask = p.in.cpumask

\* an I/O thread given the mask {0} was placed in a VM that has a VM-wide
\* mask and an automatic mask and whose group has no controller
C15_Witness ==
    /\ pc = "SetupPidDone"
    /\ obs.place[1].r.ret = 0
    /\ obs.place[1].in.nameval = "iothread"
    /\ obs.place[1].in.cpumask = Mask({0})
    /\ obs.place[1].in.ctl = {}
    /\ obs.place[1].in.auto
    /\ obs.place[1].in.autoCpuset # NoMask
    /\ obs.place[1].in.defCpumask # NoMask
    /\ CallsOf(obs.place[1], "setaffinity") # {}

\* C18: in placeThread the thread is added to the nested group before any
\* cpuset CPU list, memory-node list or bandwidth is written to the group:
\* every such write comes after a successful virCgroupAddThread.
C18_ThreadAddedBeforeSettings ==
    \A j \in 1..Len(obs.place) :
       LET p == obs.place[j]
       IN  \A k \in CallsOf(p, "setcpus") \cup CallsOf(p, "setmems")
                     \cup CallsOf(p, "setbw") :
              \E a \in CallsOf(p, "addthread") : a < k /\ a # p.r.failed

\* a call that wrote the CPU list, the memory nodes and the bandwidth
C18_Witness ==
    /\ pc = "SetupPidDone"
    /\ obs.place[1].r.ret = 0
    /\ CallsOf(obs.place[1], "setcpus") # {}
    /\ CallsOf(obs.place[1], "setmems") # {}
    /\ CallsOf(obs.place[1], "setbw") # {}

C20_Original ==
    \A j \in 1..Len(obs.place) :
       LET p == obs.place[j]
       IN  IF p.in.quota <= 0 \/ p.in.period = 0
           THEN /\ p.r.err # "ConfigUnsupported"
                /\ \A k \in CallsOf(p, "setbw") :
                      p.r.calls[k].period = 0 /\ p.r.calls[k].quota = 0
           ELSE "cpu" \notin p.in.ctl =>
                   p.r.err = "ConfigUnsupported" /\ p.r.calls = << >>

\* C20 amended: placeThread requires the CPU controller whenever the period
\* or the quota is non-zero; only the pair (0, 0) counts as unset. With a
\* non-zero period or a non-zero quota (a negative one included) and the CPU
\* controller missing, placeThread, and the vCPU placement before it looks
\* at any vCPU, fails with UnsupportedConfig before making a group or
\* changing the affinity; in every other case it does not fail with
\* UnsupportedConfig, and the bandwidth call is handed the period and quota
\* as given, (0, 0) when unset.
C20_BandwidthNeedsCpuController ==
    /\ \A j \in 1..Len(obs.place) :
          LET p == obs.place[j]
          IN  /\ p.r.err = "ConfigUnsupported" <=>
                    ((p.in.period # 0 \/ p.in.quota # 0) /\ "cpu" \notin p.in.ctl)
              /\ p.r.err = "ConfigUnsupported" =>
                    p.r.ret = 0 - 1 /\ p.r.calls = << >>
              /\ \A k \in CallsOf(p, "setbw") :
                    /\ p.r.calls[k].period = p.in.period
                    /\ p.r.calls[k].quota = p.in.quota
    /\ VcpusReturned =>
          ((pc = "Stop" /\ obs.err = "ConfigUnsupported") <=> VcpuTuneUnsupported)
    /\ (VcpusReturned /\ VcpuTuneUnsupported) => obs.place = << >>

\* a period with no quota was refused for want of the CPU controller
C20_Witness ==
    /\ pc = "SetupPidDone"
    /\ obs.place[1].in.period # 0
    /\ obs.place[1].in.quota = 0
    /\ obs.place[1].in.ctl = {"cpuset"}
    /\ obs.place[1].r.err = "ConfigUnsupported"
    /\ host.nested = {}

C17_NestedWithinTopLevel ==
    /\ host.nested # {} => host.cgroupExists
    /\ \A j \in 1..Len(obs.place) :
          CallsOf(obs.place[j], "newthread") # {} => obs.cgCreated
    /\ (pc \in {"StopFinish", "idle"} /\ obs.rmLog # << >> /\ Last(obs.rmLog) = 0) =>
          host.nested = {}

\* a second Start of the VM has placed all its threads in nested groups
\* after the Stop of its first run removed the first ones
C17_Witness ==
    /\ StartReturned
    /\ obs.ret = 0
    /\ obs.entry.cgroup
    /\ obs.entry.reason = "Shutdown"
    /\ host.cgroupExists
    /\ host.nested = {<<"emulator", 0>>, <<"iothread", 1>>,
                       <<"vcpu", 0>>, <<"vcpu", 1>>}

\* the mask the resolution policy of the specification names: the mask of
\* the entity, else in automatic placement the automatic mask, else the
\* mask of the VM, else the CPUs in last
MaskPolicy(in, last) ==
    IF in.cpumask # NoMask THEN in.cpumask
    ELSE IF in.auto THEN in.autoCpuset
    ELSE IF in.defCpumask # NoMask THEN in.defCpumask
    ELSE last

\* the mask the placement p handed to virProcessSetAffinity, NoMask when it
\* made no such call
AppliedAffinity(p) ==
    IF CallsOf(p, "setaffinity") = {} THEN NoMask
    ELSE p.r.calls[CHOOSE k \in CallsOf(p, "setaffinity") : TRUE].mask

\* whether p set an affinity at most once, and the one the policy names
\* with last as its final choice: always when it tried to set one, and
\* also when it returned success without setting any
FollowsPolicy(p, last) ==
    /\ Cardinality(CallsOf(p, "setaffinity")) <= 1
    /\ (p.r.ret = 0 \/ CallsOf(p, "setaffinity") # {}) =>
          AppliedAffinity(p) = MaskPolicy(p.in, last)

PolicyForProcess(cfg) ==
    MaskPolicy([cpumask |-> cfg.emulatorpin, auto |-> cfg.auto,
                autoCpuset |-> cfg.autoCpuset, defCpumask |-> cfg.cpumask],
               Mask(HostCpus))

\* the initial affinity step of the Start under way has succeeded
AffinityInitialized ==
    /\ obs.lastOp = "start"
    /\ \E k \in 1..Len(obs.trace) : obs.trace[k] = "AffinityInitialized"
    /\ pc \notin {"Stop", "StopRemoveCgroup", "StopFinish", "idle"}

\* the mask the initial affinity step set, NoMask when it set none
InitialAffinity == IF obs.initAff = << >> THEN NoMask ELSE obs.initAff[1].mask

\* C22 as stated: the initial affinity Start applies to the VMM process at
\* AffinityInitialized is, for every VM configuration, the mask of the
\* resolution policy of placeThread (explicit mask, else automatic mask in
\* automatic placement, else VM-wide mask, else all online host CPUs).
C22_Original ==
    (AffinityInitialized /\ pc = "NetDevicesUp") =>
       InitialAffinity = PolicyForProcess(vm.cfg)

\* C22, amended: the initial affinity Start applies at AffinityInitialized
\* follows a policy of its own, which consults neither the placement mode
\* nor the VM-wide mask: with at most one guest NUMA node and strict memory
\* mode, the CPUs of the memory nodeset (no affinity when there is no
\* nodeset); otherwise the emulator pin mask if defined; otherwise all
\* online host CPUs when the host reports an online-CPU bitmap. It is set
\* at most once, on the process id of the VMM, before any thread is
\* placed; a build without an affinity system call sets none.
C22_InitialAffinity ==
    AffinityInitialized =>
       /\ Len(obs.initAff) <= 1
       /\ \A k \in 1..Len(obs.initAff) : obs.initAff[k].pid = vm.pid
       /\ vm.pid # NoPid
       /\ InitialAffinity =
             (IF ~vm.cfg.withAffinity THEN NoMask
              ELSE IF vm.cfg.numaNodes <= 1 /\ vm.cfg.numaMode = "strict"
              THEN (IF vm.cfg.nodeset = NoMask THEN NoMask
                    ELSE Mask(UNION {NodeCpus(n) : n \in UNION vm.cfg.nodeset}))
              ELSE IF vm.cfg.emulatorpin # NoMask THEN vm.cfg.emulatorpin
              ELSE IF vm.cfg.hostBitmap THEN Mask(HostCpus)
              ELSE NoMask)
       /\ (pc = "NetDevicesUp" => obs.place = << >>)

\* a VM in automatic placement with an automatic mask and a VM-wide mask,
\* no emulator pin and no strict memory mode had its VMM process bound to
\* all the online CPUs of the host
C22_Witness ==
    /\ pc = "NetDevicesUp"
    /\ AffinityInitialized
    /\ vm.cfg.auto
    /\ vm.cfg.autoCpuset # NoMask
    /\ vm.cfg.cpumask # NoMask
    /\ vm.cfg.emulatorpin = NoMask
    /\ vm.cfg.numaMode = "none"
    /\ obs.initAff = <<[pid |-> vm.pid, mask |-> Mask(HostCpus)]>>

\* the series r of results of one system call is a run of interruptions
\* ended by one result that is not an interruption
EndsRetry(r) ==
    /\ r # << >>
    /\ Last(r) # "eintr"
    /\ \A j \in 1..(Len(r) - 1) : r[j] = "eintr"

\* C23 as stated: a poll timeout or any negative poll result is a hard
\* failure with no retry, so the wait for one response always ends after a
\* single bounded poll.
C23_Original ==
    \A k \in 1..Len(obs.recv) : Len(obs.recv[k].polled) = 1

\* C23, amended: the receive step is attempted once per request sent and
\* nothing is resent. Within it poll is called again, with a new 500 ms
\* bound, only after a poll interrupted by a signal (a negative result with
\* EINTR); a timeout or any other negative result ends the wait at that
\* poll, nothing is read, and attachNetworks returns failure at once. A
\* readable socket is read, the read too repeated only when interrupted.
\* So the wait for one response ends after one poll more than the number of
\* interruptions.
C23_ReceiveOnce ==
    /\ Len(obs.recv) <= 1
    /\ pc \in {"AddNetLoop", "Stop"} =>
          obs.reqSent = Len(obs.respLog)
                        + (IF obs.attachFail = "recvnull" THEN 1 ELSE 0)
    /\ \A k \in 1..Len(obs.recv) :
          LET r == obs.recv[k]
          IN  /\ EndsRetry(r.polled)
              /\ obs.reqSent = call.nnic
              /\ IF Last(r.polled) \in {"timeout", "error"}
                 THEN /\ r.recved = << >>
                      /\ AttachFailed
                      /\ obs.attachFail = "recvnull"
                 ELSE /\ EndsRetry(r.recved)
                      /\ Last(r.recved) = "error" <=>
                            (AttachFailed /\ obs.attachFail = "recvnull")

\* the wait for the response to the second request ended in a timeout at
\* the second poll, the first one having been interrupted
C23_Witness ==
    /\ AttachFailed
    /\ obs.attachFail = "recvnull"
    /\ obs.reqSent = 2
    /\ Len(obs.respLog) = 1
    /\ obs.recv = <<[polled |-> <<"eintr", "timeout">>, recved |-> << >>]>>

\* the vCPU placement of the Start under way, or just returned, succeeded
VcpusPlaced ==
    /\ obs.lastOp = "start"
    /\ \E k \in 1..Len(obs.trace) : obs.trace[k] = "VCPUsPlaced"

\* C24: a failure of the post-boot info query, or a missing field in its
\* result, does not fail Start: once vCPU placement has succeeded, Start
\* makes the query, marks the domain Running with the reason its caller
\* supplied and returns success whatever the query gave, and Stop is not
\* invoked.
C24_InfoFailureIgnored ==
    VcpusPlaced =>
       /\ obs.stopCalls = 0
       /\ obs.failedAt = "none"
       /\ pc \in {"Running", "idle"}
       /\ pc = "Running" => (obs.info = << >> /\ obs.ret = 1)
       /\ pc = "idle" =>
             /\ Len(obs.info) = 1
             /\ obs.ret = 0
             /\ vm.state = "Running"
             /\ vm.reason = obs.info[1].reason
             /\ vm.reason \in RunningReasons \cup PlaceReasons
             /\ virDomainObjIsActive(vm.id)
             /\ vm.monitor

\* a Start whose info query failed has returned success with the domain
\* Running for the reason Restored
C24_Witness ==
    /\ StartReturned
    /\ obs.info = <<[ret |-> 0 - 1, path |-> FALSE, reason |-> "Restored"]>>
    /\ obs.ret = 0
    /\ obs.stopCalls = 0
    /\ vm.state = "Running"
    /\ vm.reason = "Restored"

\* the VM record v is what a Start that failed at the interface bring-up
\* leaves: an id that makes the domain active, and a domain never set
\* Running
Leftover(v) == v.id # NoId /\ v.state # "Running"

\* what holds before and during the calls made on such a VM: the record
\* holds the pid of the VMM with its monitor connection and its cgroup, a
\* Start is rejected as already active and changes nothing, and a Stop
\* closes the connection and ends in Shutoff with the domain inactive
LeftoverHandled ==
    /\ (Idle /\ Leftover(vm)) =>
          /\ vm.monitor
          /\ vm.pid = vm.monPid
          /\ vm.pid \in VmmPids
          /\ vm.id = vm.pid
          /\ vm.cgroup
          /\ host.cgroupExists
          /\ host.conns = 1
    /\ (obs.lastOp = "start" /\ Leftover(obs.entry)) =>
          /\ pc = "idle"
          /\ obs.ret = 0 - 1
          /\ obs.err = "OperationInvalid"
          /\ obs.stopCalls = 0
          /\ ~obs.monOpened
          /\ ~obs.cgCreated
          /\ vm = obs.entry
          /\ host.conns = 1
    /\ (StopReturned /\ Leftover(obs.entry)) =>
          /\ ~vm.monitor
          /\ host.conns = 0
          /\ vm.pid = NoPid
          /\ vm.id = NoId
          /\ vm.state = "Shutoff"
          /\ vm.reason = call.stopReason
    /\ (obs.lastOp = "start" /\ obs.entry.id = NoId /\ ~BackendUnavailable) =>
          /\ obs.trace # << >>
          /\ obs.err # "OperationInvalid"

\* C25 as stated: after a Start that failed at the interface bring-up every
\* further Start is rejected as already active, opening no second monitor
\* connection and creating no second cgroup, until a Stop is called; that
\* Stop releases the leftover monitor connection and the cgroup and reaches
\* Shutoff, after which Start is accepted again.
C25_Original ==
    /\ LeftoverHandled
    /\ (StopReturned /\ Leftover(obs.entry)) => ~host.cgroupExists

\* C25, amended: the same, except that the Stop releases the cgroup only
\* when one of its removal attempts succeeds: when the removal fails, or
\* reports busy at all six attempts, the Stop still closes the connection
\* and reaches Shutoff, and the cgroup stays.
C25_LeftoverUntilStop ==
    /\ LeftoverHandled
    /\ (StopReturned /\ Leftover(obs.entry)) =>
          /\ obs.rmLog # << >>
          /\ host.cgroupExists <=> Last(obs.rmLog) # 0

\* a Stop called on the VM a failed interface bring-up left behind has
\* closed the connection and removed the cgroup at its second attempt
C25_Witness ==
    /\ StopReturned
    /\ Leftover(obs.entry)
    /\ obs.entry.monitor
    /\ obs.rmLog = <<0 - EBUSY, 0>>
    /\ host.conns = 0
    /\ ~host.cgroupExists
    /\ vm.state = "Shutoff"
    /\ vm.id = NoId

====
